---- MODULE Spec2Model ----
(***************************************************************************)
(* The file record store of the analytics dashboard (class FileService):   *)
(* upload, list, lookup, delete and search of parsed CSV / spreadsheet     *)
(* files, kept in an insertion-ordered Map and mirrored into localStorage. *)
(*                                                                         *)
(* JavaScript values are tagged records ([t |-> "string", ...]); a string  *)
(* is a sequence of one-character strings, so that toLowerCase, split and  *)
(* includes are computed and not assumed.                                  *)
(***************************************************************************)
EXTENDS Integers, Sequences, FiniteSets, Bags, TLC

(* ------------------------------ bounds -------------------------------- *)

\* Date.now() takes the values 0..MaxClock.
MaxClock == 1
\* Math.random().toString(36).substr(2) takes the values 1..MaxRand.
MaxRand == 2
\* uploadFile calls issued in one run.
MaxUploads == 2
\* Columns of a generated CSV header; a data line has up to one field more.
MaxColumns == 2
\* Lines after the header of a generated CSV text.
MaxLines == 2
\* Cells of a generated column, the padding of empty cells not counted.
MaxSample == 6
\* The chat sessions held at a time, and the messages of one session.
MaxChats == 2
MaxMessages == 2
\* The testConnection calls awaiting their fetch at a time.
MaxTests == 2

(* --------------------------- JavaScript values ------------------------ *)

Str(s) == [t |-> "string", s |-> s]
Num(n) == [t |-> "number", n |-> n]
Undef == [t |-> "undefined"]
Null == [t |-> "null"]
Arr(elems) == [t |-> "array", elems |-> elems]
Obj(entries) == [t |-> "object", entries |-> entries]
Empty == Str(<<>>)

Min(a, b) == IF a < b THEN a ELSE b

\* Array.prototype.slice(from, to), 0-based, end exclusive.
Slice(s, from, to) == [i \in 1..(Min(to, Len(s)) - Min(from, Len(s))) |-> s[from + i]]

Lower(c) ==
  CASE c = "A" -> "a"
    [] c = "B" -> "b"
    [] c = "C" -> "c"
    [] c = "S" -> "s"
    [] c = "V" -> "v"
    [] c = "X" -> "x"
    [] c = "L" -> "l"
    [] OTHER -> c

\* String.prototype.toLowerCase
ToLowerCase(s) == [i \in 1..Len(s) |-> Lower(s[i])]

\* Number.prototype.toString for the small non-negative integers of the model
Digits(n) ==
  IF n < 10 THEN <<ToString(n)>> ELSE <<ToString(n \div 10), ToString(n % 10)>>

\* String(value)
String(v) ==
  CASE v.t = "string" -> v.s
    [] v.t = "number" -> Digits(v.n)
    [] v.t = "null" -> <<"n", "u", "l", "l">>
    [] OTHER -> <<"u", "n", "d", "e", "f", "i", "n", "e", "d">>

\* String.prototype.includes
Includes(s, q) ==
  \E i \in 0..(Len(s) - Len(q)) : \A k \in 1..Len(q) : s[i + k] = q[k]

\* The operand of (x || ''): false, 0, '', null, undefined and NaN are falsy.
Falsy(v) ==
  \/ v.t \in {"undefined", "null"}
  \/ v.t = "number" /\ v.n = 0
  \/ v.t = "string" /\ v.s = <<>>

\* row[index]: reading past the end of an array, or a hole, gives undefined.
At(row, index) == IF index <= Len(row) THEN row[index] ELSE Undef

(* ------------------------ uploaded files (inputs) --------------------- *)

\* data.slice(0, 10): the rows of a preview.
PreviewRows == 10

\* A File: its name and size, and what the two parsing libraries report for
\* its content: Papa.parse (results.errors, results.data, results.meta.fields,
\* or the error callback) and FileReader + XLSX.read + sheet_to_json
\* (header: 1: an array of rows, each an array of cells with holes).
File(name, size, papa, sheet) == [name |-> name, size |-> size, papa |-> papa, sheet |-> sheet]

PapaComplete(errors, data, fields) ==
  [outcome |-> "complete", errors |-> errors, data |-> data, fields |-> fields]
PapaError == [outcome |-> "error", errors |-> <<>>, data |-> <<>>, fields |-> Undef]
NoPapa == [outcome |-> "unused", errors |-> <<>>, data |-> <<>>, fields |-> Undef]

SheetLoaded(jsonData) == [outcome |-> "load", jsonData |-> jsonData]
SheetThrows == [outcome |-> "throws", jsonData |-> <<>>]
SheetReadError == [outcome |-> "readerror", jsonData |-> <<>>]
NoSheet == [outcome |-> "unused", jsonData |-> <<>>]

\* The text of a CSV file: the fields of its header line and of each line
\* after it (a field is a string, the empty line is the line <<"">>).
Csv(header, lines) == [header |-> header, lines |-> lines]

\* A line that skipEmptyLines: true drops.
EmptyLine(line) == line = <<<<>>>>

RECURSIVE Concat(_)
Concat(seqs) == IF seqs = <<>> THEN <<>> ELSE Head(seqs) \o Concat(Tail(seqs))

\* Papa.parse(file, {header: true, skipEmptyLines: true}) on a comma separated
\* text: no delimiter is configured, so it is guessed from the first 10 lines
\* and the guess fails unless they average more than 1.99 fields; a line with
\* fewer or more fields than the header is reported, its object holds the
\* fields it has, the surplus under __parsed_extra.
PapaParse(csv) ==
  LET fields == csv.header
      n == Len(fields)
      keep(line) == ~EmptyLine(line)
      rows == SelectSeq(csv.lines, keep)
      previewed == SelectSeq(Slice(<<fields>> \o csv.lines, 0, 10), keep)
      fieldCount == Len(Concat(previewed))
      guessed == Len(previewed) > 0 /\ 100 * fieldCount > 199 * Len(previewed)
      delimiterError ==
        IF guessed THEN <<>>
        ELSE <<"Unable to auto-detect delimiting character; defaulted to ','">>
      fieldError(row) ==
        IF Len(row) < n THEN <<"Too few fields">>
        ELSE IF Len(row) > n THEN <<"Too many fields">>
        ELSE <<>>
      named(row) == [k \in {fields[j] : j \in 1..Min(n, Len(row))} |->
                       Str(row[CHOOSE j \in 1..Min(n, Len(row)) :
                                 /\ fields[j] = k
                                 /\ \A i \in 1..Min(n, Len(row)) : fields[i] = k => i <= j])]
      object(row) ==
        IF Len(row) > n
        THEN named(row) @@
             (<<"__parsed_extra">> :> Arr([j \in 1..(Len(row) - n) |-> Str(row[n + j])]))
        ELSE named(row)
  IN  PapaComplete(delimiterError \o Concat([i \in 1..Len(rows) |-> fieldError(rows[i])]),
                   [i \in 1..Len(rows) |-> object(rows[i])],
                   Arr([j \in 1..n |-> Str(fields[j])]))

\* Column names of the inputs.
cn == <<"n">>
cv == <<"v">>

CsvRow(n, v) == (cn :> Str(n)) @@ (cv :> Str(v))

\* name,value / "Ab",1 / c,2
CsvWithRows ==
  PapaComplete(<<>>, <<CsvRow(<<"A", "b">>, <<"1">>), CsvRow(<<"c">>, <<"2">>)>>,
               Arr(<<Str(cn), Str(cv)>>))
\* name,value and no data line
CsvHeaderOnly == PapaComplete(<<>>, <<>>, Arr(<<Str(cn), Str(cv)>>))
\* an unterminated quoted field
CsvMalformed ==
  PapaComplete(<<"Quoted field unterminated">>, <<CsvRow(<<"c">>, <<>>)>>,
               Arr(<<Str(cn), Str(cv)>>))

\* n | v  /  "aB" | 0  /  "c" | (missing)
SheetWithRows ==
  SheetLoaded(<<<<Str(cn), Str(cv)>>, <<Str(<<"a", "B">>), Num(0)>>, <<Str(<<"c">>)>>>>)
SheetHeaderOnly == SheetLoaded(<<<<Str(cn), Str(cv)>>>>)
SheetNoRows == SheetLoaded(<<>>)
\* n | (blank header cell) | v  /  "b" | 7 | 12
SheetHeaderHole ==
  SheetLoaded(<<<<Str(cn), Undef, Str(cv)>>, <<Str(<<"b">>), Num(7), Num(12)>>>>)

\* The sequences over S of length up to n.
SeqsUpTo(S, n) == UNION {[1..k -> S] : k \in 0..n}

\* The header h1,...,hn.
Header(n) == [j \in 1..n |-> <<"h">> \o Digits(j)]

\* The CSV texts parsed: every header, and all lines of empty and non-empty
\* fields, the empty line and lines shorter and longer than the header among
\* them.
CsvLines == UNION {[1..k -> {<<>>, <<"1">>}] : k \in 1..(MaxColumns + 1)}
CsvInputs ==
  {Csv(Header(n), lines) : n \in 1..MaxColumns, lines \in SeqsUpTo(CsvLines, MaxLines)}

\* n,v / 1,c / 2,c / ... : one data line more than a preview holds.
CsvLong ==
  PapaParse(Csv(<<cn, cv>>, [i \in 1..(PreviewRows + 1) |-> <<Digits(i), <<"c">>>>]))

Files ==
  { File(<<"a", ".", "c", "s", "v">>, 20, CsvWithRows, NoSheet),
    File(<<"b", ".", "c", "s", "v">>, 70, CsvLong, NoSheet),
    File(<<"h", ".", "C", "S", "V">>, 11, CsvHeaderOnly, NoSheet),
    File(<<"m", ".", "c", "s", "v">>, 13, CsvMalformed, NoSheet),
    File(<<"e", ".", "c", "s", "v">>, 14, PapaError, NoSheet),
    File(<<"c", "s", "v">>, 20, CsvWithRows, NoSheet),
    File(<<"s", ".", "x", "l", "s", "x">>, 30, NoPapa, SheetWithRows),
    File(<<"o", ".", "X", "l", "s">>, 31, NoPapa, SheetHeaderOnly),
    File(<<"z", ".", "x", "l", "s", "x">>, 0, NoPapa, SheetNoRows),
    File(<<"g", ".", "x", "l", "s">>, 32, NoPapa, SheetHeaderHole),
    File(<<"t", ".", "x", "l", "s">>, 33, NoPapa, SheetThrows),
    File(<<"r", ".", "x", "l", "s", "x">>, 34, NoPapa, SheetReadError),
    File(<<"r", ".", "p", "d", "f">>, 40, NoPapa, NoSheet),
    File(<<"r", "e", "p">>, 42, CsvWithRows, NoSheet) }

\* The search strings tried.
Queries == {<<>>, <<"a", "B">>, <<"C">>, <<"1">>, <<"z">>}

(* ------------------------------ parsing ------------------------------- *)

\* A promise's outcome; an error message is the sequence of its parts, the
\* wrapped message last.
Resolve(value) == [ok |-> TRUE, value |-> value, error |-> <<>>]
Reject(error) == [ok |-> FALSE, value |-> Undef, error |-> error]

\* The parse result with all rows as the preview.
ParsedDataWholePreview(data, columns) ==
  [data |-> data, columns |-> columns, rowCount |-> Len(data), preview |-> data]

ParsedData(data, columns) ==
  [data |-> data, columns |-> columns, rowCount |-> Len(data),
   preview |-> Slice(data, 0, PreviewRows)]

\* parseCSV: the promise's outcome for the Papa.parse result of the file.
ParseCSV(file) ==
  IF file.papa.outcome # "complete"
  THEN Reject(<<"Failed to parse CSV">>)
  ELSE IF Len(file.papa.errors) > 0
  THEN Reject(<<"CSV parsing error", file.papa.errors[1]>>)
  ELSE Resolve(ParsedData(file.papa.data,
                          IF file.papa.fields.t = "array" THEN file.papa.fields.elems ELSE <<>>))

\* The object built for one sheet row: headers.forEach skips the holes of the
\* header row, obj[header] = row[index] || '' , a later equal header overwrites.
RowObject(headers, row) ==
  LET idx == {j \in 1..Len(headers) : headers[j].t # "undefined"}
      keys == {String(headers[j]) : j \in idx}
      last(k) == CHOOSE j \in idx : /\ String(headers[j]) = k
                                    /\ \A i \in idx : String(headers[i]) = k => i <= j
  IN  [k \in keys |-> IF Falsy(At(row, last(k))) THEN Empty ELSE At(row, last(k))]

\* parseXLSX: the promise's outcome for the FileReader / XLSX result of the file.
ParseXLSX(file) ==
  IF file.sheet.outcome = "readerror"
  THEN Reject(<<"Failed to read Excel file">>)
  ELSE IF file.sheet.outcome # "load"
  THEN Reject(<<"Failed to parse Excel file">>)
  ELSE IF Len(file.sheet.jsonData) = 0
  THEN Reject(<<"Excel file is empty">>)
  ELSE LET headers == file.sheet.jsonData[1]
           rows == Slice(file.sheet.jsonData, 1, Len(file.sheet.jsonData))
           processedData == [i \in 1..Len(rows) |-> RowObject(headers, rows[i])]
       IN  Resolve(ParsedData(processedData, headers))

\* filename.split('.').pop(): the text after the last '.', the whole name
\* when it has no '.'.
SplitPop(s) ==
  LET dots == {i \in 1..Len(s) : s[i] = "."}
  IN  IF dots = {}
      THEN s
      ELSE SubSeq(s, (CHOOSE i \in dots : \A j \in dots : j <= i) + 1, Len(s))

GetFileType(filename) ==
  LET extension == SplitPop(ToLowerCase(filename))
  IN  CASE extension = <<"c", "s", "v">> -> "csv"
        [] extension = <<"x", "l", "s", "x">> -> "xlsx"
        [] extension = <<"x", "l", "s">> -> "xlsx"
        [] OTHER -> "null"

(* ------------------------------- state -------------------------------- *)

VARIABLES
  files,        \* this.files: the Map, as its entries in insertion order
  storage,      \* localStorage's item under STORAGE_KEY
  clock,        \* the last value Date.now() returned
  pending,      \* uploadFile calls awaiting their parser's callback
  uploads,      \* uploadFile calls issued so far
  last,         \* the operation that ran last, its arguments and what it returned
  issued,       \* history: the keys under which a value was ever stored
  ui,           \* the upload dialog: its uploading flag, its error text and the
                \* handleFiles calls awaiting an upload
  requests,     \* the POST requests the upload route has not answered
  chat,         \* the query interface: chatSessions, currentChatId, isLoading and
                \* the handleSubmit call awaiting its reply
  llm           \* the LocalLLMService: config, isConnected, connectionStatus and
                \* the testConnection calls awaiting their fetch

vars == <<files, storage, clock, pending, uploads, last, issued, ui, requests, chat, llm>>

\* The state outside the FileService instance.
front == <<ui, requests, chat, llm>>
\* The query interface and the service it asks.
page == <<chat, llm>>

\* The dialog as mounted: useState(false), useState(''), no call running.
UiInit == [uploading |-> FALSE, error |-> <<>>, batches |-> EmptyBag]

\* The id of the chat session the interface starts with, '1'.
FirstChatId == [t |-> "text", s |-> <<"1">>]
\* Date.now().toString(): the text of a millisecond count of today, which is
\* no '1'.
NowText(now) == [t |-> "ms", now |-> now]

\* The query interface as mounted: one session 'New Chat' without messages,
\* current; nothing loading. The timestamps of sessions and messages
\* (createdAt, lastActivity, timestamp) are written and never read, and are
\* left out.
ChatInit ==
  [chatSessions |-> <<[id |-> FirstChatId, name |-> <<"New Chat">>, messages |-> <<>>]>>,
   currentChatId |-> FirstChatId, isLoading |-> FALSE, awaiting |-> {}]

\* The model name of the default config.
DefaultModel == <<"l", ":", "8">>

\* new LocalLLMService().
LlmInit ==
  [config |-> [model |-> DefaultModel], isConnected |-> FALSE,
   connectionStatus |-> "disconnected", tests |-> 0]

(* ------------------------- the Map and its keys ----------------------- *)

\* generateId: Date.now().toString(36) + Math.random().toString(36).substr(2).
\* The time prefix has a fixed width, so the pair determines the text.
GenerateId(now, rand) == [t |-> "id", time |-> now, rand |-> rand]
\* A property name of a persisted value that no generateId call produced.
Key(s) == [t |-> "key", s |-> s]

Entry(key, value) == [key |-> key, value |-> value]

MapHas(m, key) == \E i \in 1..Len(m) : m[i].key = key
MapIndex(m, key) == CHOOSE i \in 1..Len(m) : m[i].key = key
\* Map.prototype.get
MapGet(m, key) == IF MapHas(m, key) THEN m[MapIndex(m, key)].value ELSE Undef
\* Map.prototype.set: a present key keeps its place and takes the new value.
MapSet(m, key, value) ==
  IF MapHas(m, key)
  THEN [m EXCEPT ![MapIndex(m, key)] = Entry(key, value)]
  ELSE Append(m, Entry(key, value))
\* Map.prototype.delete
MapDelete(m, key) ==
  IF MapHas(m, key)
  THEN LET i == MapIndex(m, key)
       IN  [j \in 1..(Len(m) - 1) |-> IF j < i THEN m[j] ELSE m[j + 1]]
  ELSE m
MapKeys(m) == {m[i].key : i \in 1..Len(m)}
\* Array.from(map.values())
MapValues(m) == [i \in 1..Len(m) |-> m[i].value]

(* ----------------------------- persistence ---------------------------- *)

\* localStorage.getItem results: null, or a text, held as what JSON.parse
\* makes of it.
NoItem == [k |-> "absent"]
Unparseable == [k |-> "unparseable"]
JsonText(v) == [k |-> "json", v |-> v]

\* JSON.stringify of an array: a hole or undefined element becomes null.
JsonArray(a) == [i \in 1..Len(a) |-> IF a[i].t = "undefined" THEN Null ELSE a[i]]
\* JSON.stringify of a row object: a property whose value is undefined is left out.
JsonRow(row) == [k \in {x \in DOMAIN row : row[x].t # "undefined"} |-> row[k]]
JsonRows(rows) == [i \in 1..Len(rows) |-> JsonRow(rows[i])]

\* JSON.parse(JSON.stringify(value)) for a value of the Map.
ToJSON(value) ==
  IF value.t = "FileData"
  THEN [value EXCEPT !.columns = JsonArray(@), !.data = JsonRows(@), !.preview = JsonRows(@)]
  ELSE value

\* JSON.stringify(Object.fromEntries(this.files)); generated ids are no array
\* indices, so the object's keys keep the Map's order.
Serialize(m) == JsonText(Obj([i \in 1..Len(m) |-> Entry(m[i].key, ToJSON(m[i].value))]))

\* Object.entries of a parsed JSON value; "throws" for null.
ObjectEntries(v) ==
  CASE v.t = "object" -> v.entries
    [] v.t = "array" -> [i \in 1..Len(v.elems) |-> Entry(Key(Digits(i - 1)), v.elems[i])]
    [] v.t = "string" -> [i \in 1..Len(v.s) |-> Entry(Key(Digits(i - 1)), Str(<<v.s[i]>>))]
    [] OTHER -> <<>>

\* loadFilesFromStorage on a fresh instance (this.files = new Map()): the Map
\* it leaves. A missing item, a JSON.parse error and Object.entries(null)
\* leave the Map empty.
LoadFilesFromStorage(stored) ==
  IF stored.k # "json"
  THEN <<>>
  ELSE IF stored.v.t = "null"
  THEN <<>>
  ELSE ObjectEntries(stored.v)

\* saveFilesToStorage: the item afterwards; an exception of setItem is caught.
SaveFilesToStorage(m, stored, setItemThrows) ==
  IF setItemThrows THEN stored ELSE Serialize(m)

(* ------------------------------ the store ----------------------------- *)

\* new Date().toISOString(), and new Date(text).getTime() on it: the text
\* names the millisecond.
ToISOString(ms) == [t |-> "string", iso |-> ms]
DateGetTime(text) == text.iso

FileData(id, file, fileType, at, parsed) ==
  [t |-> "FileData", id |-> id, name |-> file.name, type |-> fileType, size |-> file.size,
   uploadedAt |-> ToISOString(at), data |-> parsed.data, columns |-> parsed.columns,
   rowCount |-> parsed.rowCount, preview |-> parsed.preview]

IsFile(value) == value.t = "FileData"

\* new Date(x.uploadedAt).getTime() is NaN for a value with no uploadedAt.
HasTime(value) == value.t = "FileData"

\* The comparator of getFiles, (a, b) => time(b) - time(a); sort takes a NaN
\* result as +0.
Compare(a, b) ==
  IF HasTime(a) /\ HasTime(b)
  THEN DateGetTime(b.uploadedAt) - DateGetTime(a.uploadedAt)
  ELSE 0

\* Array.prototype.sort (stable): each element, in order, goes before the
\* first element of the sorted part that the comparator puts after it.
RECURSIVE InsertAt(_, _, _)
InsertAt(sorted, x, i) ==
  IF i > Len(sorted) THEN Append(sorted, x)
  ELSE IF Compare(x, sorted[i]) < 0
  THEN SubSeq(sorted, 1, i - 1) \o <<x>> \o SubSeq(sorted, i, Len(sorted))
  ELSE InsertAt(sorted, x, i + 1)

RECURSIVE Sort(_)
Sort(a) == IF a = <<>> THEN <<>> ELSE InsertAt(Sort(SubSeq(a, 1, Len(a) - 1)), a[Len(a)], 1)

GetFilesOf(m) == Sort(MapValues(m))
GetFiles == GetFilesOf(files)

\* getFile: this.files.get(id) || null
GetFileOf(m, id) == IF Falsy(MapGet(m, id)) THEN Null ELSE MapGet(m, id)
GetFile(id) == GetFileOf(files, id)

\* Object.values(row)
ObjectValues(row) == {row[k] : k \in DOMAIN row}

RowMatches(row, lowerQuery) ==
  \E value \in ObjectValues(row) : Includes(ToLowerCase(String(value)), lowerQuery)

\* Array.prototype.filter with the predicate of searchInFile
RECURSIVE Filter(_, _)
Filter(rows, lowerQuery) ==
  IF rows = <<>> THEN <<>>
  ELSE IF RowMatches(Head(rows), lowerQuery)
  THEN <<Head(rows)>> \o Filter(Tail(rows), lowerQuery)
  ELSE Filter(Tail(rows), lowerQuery)

Return(value) == [throws |-> FALSE, value |-> value]
Throw == [throws |-> TRUE, value |-> Undef]

\* searchInFile comparing against the query as typed.
SearchInFileCaseSensitive(fileId, query) ==
  LET file == MapGet(files, fileId)
  IN  IF Falsy(file) THEN Return(<<>>)
      ELSE IF file.t # "FileData" THEN Throw
      ELSE Return(Filter(file.data, query))

\* searchInFile; file.data.filter throws a TypeError when the Map's value has
\* no data property.
SearchInFile(fileId, query) ==
  LET file == MapGet(files, fileId)
      lowerQuery == ToLowerCase(query)
  IN  IF Falsy(file) THEN Return(<<>>)
      ELSE IF file.t # "FileData" THEN Throw
      ELSE Return(Filter(file.data, lowerQuery))

(* --------------------------- type inference --------------------------- *)

Digit(c) == c \in {"0", "1", "2", "3", "4", "5", "6", "7", "8", "9"}

\* String.prototype.trim for the white space of the model, the blank.
Trim(s) ==
  LET inked == {i \in 1..Len(s) : s[i] # " "}
  IN  IF inked = {} THEN <<>>
      ELSE SubSeq(s, CHOOSE i \in inked : \A j \in inked : i <= j,
                     CHOOSE i \in inked : \A j \in inked : j <= i)

\* isNaN(Number(val)). Number(null) is 0 and Number(undefined) NaN; a string
\* is trimmed, the empty text is 0, otherwise it has to be a decimal literal:
\* an optional sign, digits with at most one '.', a digit among them. (The
\* texts of the model hold no exponent, no 0x prefix and no Infinity.)
NumberIsNaN(val) ==
  CASE val.t = "number" -> FALSE
    [] val.t = "null" -> FALSE
    [] val.t = "string" ->
         LET t == Trim(val.s)
             u == IF t # <<>> /\ t[1] \in {"+", "-"} THEN Tail(t) ELSE t
         IN  ~ \/ t = <<>>
               \/ /\ \A i \in 1..Len(u) : Digit(u[i]) \/ u[i] = "."
                  /\ \E i \in 1..Len(u) : Digit(u[i])
                  /\ Cardinality({i \in 1..Len(u) : u[i] = "."}) <= 1
    [] OTHER -> TRUE

\* The date-time string format every engine parses: YYYY, YYYY-MM, YYYY-MM-DD.
IsoDate(s) ==
  LET value(i) == CHOOSE n \in 0..9 : ToString(n) = s[i]
      two(i) == 10 * value(i) + value(i + 1)
  IN  /\ Len(s) \in {4, 7, 10}
      /\ \A i \in 1..Len(s) : IF i \in {5, 8} THEN s[i] = "-" ELSE Digit(s[i])
      /\ Len(s) >= 7 => two(6) \in 1..12
      /\ Len(s) = 10 => two(9) \in 1..31

\* isNaN(Date.parse(val)): val is converted to a string; a text in the
\* date-time string format parses, what an engine makes of any other text is
\* left to it: one that falls back to a lenient legacy parser (lenient) reads
\* a text with a number in it ("1", "7") as a date, a strict one does not; a
\* text without a digit is no date.
DateParseIsNaN(val, lenient) ==
  LET s == String(val)
  IN  ~ \/ IsoDate(s)
        \/ lenient /\ \E i \in 1..Len(s) : Digit(s[i])

\* data.slice(0, 100): the rows inferDataTypes and getFileStats sample.
SampleRows == 100

\* row[column]: the property named by the column converted to a string,
\* undefined when the row has none.
RowGet(row, column) == IF String(column) \in DOMAIN row THEN row[String(column)] ELSE Undef

\* The body of inferDataTypes for one column, with every row of the table in
\* the sample.
InferColumnWholeTable(data, column, lenient) ==
  LET cells == [i \in 1..Len(data) |-> RowGet(data[i], column)]
      kept(val) == val.t \notin {"null", "undefined"} /\ val # Empty
      sample == SelectSeq(cells, kept)
      numeric(val) == ~NumberIsNaN(val)
      date(val) == ~DateParseIsNaN(val, lenient)
      numericCount == Len(SelectSeq(sample, numeric))
      dateCount == Len(SelectSeq(sample, date))
  IN  IF Len(sample) = 0 THEN "unknown"
      ELSE IF 10 * numericCount > 8 * Len(sample) THEN "numeric"
      ELSE IF 10 * dateCount > 8 * Len(sample) THEN "date"
      ELSE "text"

\* The body of inferDataTypes for one column, with the threshold reached at
\* 0.8 already.
InferColumnAtLeast(data, column, lenient) ==
  LET cells == [i \in 1..Len(Slice(data, 0, SampleRows)) |-> RowGet(data[i], column)]
      kept(val) == val.t \notin {"null", "undefined"} /\ val # Empty
      sample == SelectSeq(cells, kept)
      numeric(val) == ~NumberIsNaN(val)
      date(val) == ~DateParseIsNaN(val, lenient)
      numericCount == Len(SelectSeq(sample, numeric))
      dateCount == Len(SelectSeq(sample, date))
  IN  IF Len(sample) = 0 THEN "unknown"
      ELSE IF 10 * numericCount >= 8 * Len(sample) THEN "numeric"
      ELSE IF 10 * dateCount >= 8 * Len(sample) THEN "date"
      ELSE "text"

\* The body of inferDataTypes for one column with the empty cells left in the
\* sample.
InferColumnKeepEmpty(data, column, lenient) ==
  LET sample == [i \in 1..Len(Slice(data, 0, SampleRows)) |-> RowGet(data[i], column)]
      numeric(val) == ~NumberIsNaN(val) /\ val # Empty /\ val.t # "null"
      date(val) == ~DateParseIsNaN(val, lenient)
      numericCount == Len(SelectSeq(sample, numeric))
      dateCount == Len(SelectSeq(sample, date))
  IN  IF Len(sample) = 0 THEN "unknown"
      ELSE IF 10 * numericCount > 8 * Len(sample) THEN "numeric"
      ELSE IF 10 * dateCount > 8 * Len(sample) THEN "date"
      ELSE "text"

\* The body of inferDataTypes for one column. numericCount / sample.length >
\* 0.8 is decided exactly: the quotient of two integers up to 100 is never
\* within a rounding error of 0.8 unless it is 4/5, which rounds to the same
\* double as the literal 0.8.
InferColumn(data, column, lenient) ==
  LET cells == [i \in 1..Len(Slice(data, 0, SampleRows)) |-> RowGet(data[i], column)]
      kept(val) == val.t \notin {"null", "undefined"} /\ val # Empty
      sample == SelectSeq(cells, kept)
      numeric(val) == ~NumberIsNaN(val)
      date(val) == ~DateParseIsNaN(val, lenient)
      numericCount == Len(SelectSeq(sample, numeric))
      dateCount == Len(SelectSeq(sample, date))
  IN  IF Len(sample) = 0 THEN "unknown"
      ELSE IF 10 * numericCount > 8 * Len(sample) THEN "numeric"
      ELSE IF 10 * dateCount > 8 * Len(sample) THEN "date"
      ELSE "text"

\* inferDataTypes: the types object, a type per column name.
InferDataTypes(data, columns, lenient) ==
  [k \in {String(columns[j]) : j \in 1..Len(columns)} |->
     InferColumn(data, Str(k), lenient)]

(* ----------------------------- statistics ----------------------------- *)

NaN == [t |-> "NaN"]

\* The value of a text of decimal digits.
RECURSIVE DigitsValue(_)
DigitsValue(s) ==
  IF s = <<>> THEN 0
  ELSE 10 * DigitsValue(SubSeq(s, 1, Len(s) - 1)) + (CHOOSE n \in 0..9 : ToString(n) = s[Len(s)])

\* Number(val): NaN, or the number; null and the blank text are 0. (The
\* numeric texts of the model are integers.)
ToNumber(val) ==
  IF NumberIsNaN(val) THEN NaN
  ELSE CASE val.t = "number" -> val
         [] val.t = "null" -> Num(0)
         [] OTHER ->
              LET t == Trim(val.s)
              IN  IF t = <<>> THEN Num(0)
                  ELSE IF t[1] = "-" THEN Num(0 - DigitsValue(Tail(t)))
                  ELSE IF t[1] = "+" THEN Num(DigitsValue(Tail(t)))
                  ELSE Num(DigitsValue(t))

\* formatFileSize for a size below 1024 bytes, where the unit is Bytes and
\* toFixed(2) changes nothing; the count of whole units above that.
FormatFileSize(bytes) ==
  IF bytes = 0 THEN <<"0", " ", "Bytes">>
  ELSE LET i == CHOOSE e \in 0..3 : 1024 ^ e <= bytes /\ (e = 3 \/ bytes < 1024 ^ (e + 1))
       IN  Digits(bytes \div (1024 ^ i)) \o <<" ", <<"Bytes", "KB", "MB", "GB">>[i + 1]>>

\* The numericColumns filter of getFileStats: every one of the first 100 rows
\* has under the column a value that Number() parses and that is not ''.
StatsNumeric(data, col) ==
  LET sample == Slice(data, 0, SampleRows)
  IN  \A i \in 1..Len(sample) :
        ~NumberIsNaN(RowGet(sample[i], col)) /\ RowGet(sample[i], col) # Empty

\* The rows the dashboard renderer looks at for its numericColumns.
DashboardRows == 50

\* The numericColumns of the dashboard renderer, as the set of their names:
\* the keys of the first row of which some one of the first 50 rows has a
\* value that Number() parses and that is not ''.
DashboardNumericColumns(data) ==
  LET sample == Slice(data, 0, DashboardRows)
  IN  {col \in DOMAIN data[1] :
         \E i \in 1..Len(sample) :
           ~NumberIsNaN(RowGet(sample[i], Str(col))) /\ RowGet(sample[i], Str(col)) # Empty}

\* getFileStats on the Map m. The columns whose first 100 cells are all numbers
\* and none '' count as numeric; the block of figures is for the first of
\* them, over Number(cell) of every row where that is no NaN, and is left out
\* when there is no such row. A value of the Map without columns throws.
GetFileStatsOf(m, fileId) ==
  LET file == MapGet(m, fileId)
      isNumeric(col) == StatsNumeric(file.data, col)
      numericColumns == SelectSeq(file.columns, isNumeric)
      firstNumCol == numericColumns[1]
      isNumber(val) == val # NaN
      values == SelectSeq([i \in 1..Len(file.data) |->
                             ToNumber(RowGet(file.data[i], firstNumCol))], isNumber)
      least == CHOOSE i \in 1..Len(values) : \A j \in 1..Len(values) : values[i].n <= values[j].n
      most == CHOOSE i \in 1..Len(values) : \A j \in 1..Len(values) : values[j].n <= values[i].n
      RECURSIVE sum(_, _)
      sum(from, to) ==
        IF from > to THEN 0
        ELSE IF from = to THEN values[from].n
        ELSE sum(from, (from + to) \div 2) + sum((from + to) \div 2 + 1, to)
      sampleStats ==
        IF Len(numericColumns) > 0 /\ Len(values) > 0
        THEN [column |-> firstNumCol, min |-> values[least].n, max |-> values[most].n,
              avg |-> [num |-> sum(1, Len(values)), den |-> Len(values)], count |-> Len(values)]
        ELSE Undef
  IN  IF Falsy(file) THEN Return(Null)
      ELSE IF file.t # "FileData" THEN Throw
      ELSE Return([totalRows |-> file.rowCount, totalColumns |-> Len(file.columns),
                   fileSize |-> FormatFileSize(file.size),
                   uploadedAt |-> [localeDate |-> DateGetTime(file.uploadedAt)],
                   numericColumns |-> Len(numericColumns),
                   textColumns |-> Len(file.columns) - Len(numericColumns),
                   sampleStats |-> sampleStats])

(* ------------------------------- actions ------------------------------ *)

Ids == {GenerateId(now, rand) : now \in 0..MaxClock, rand \in 1..MaxRand} \cup {Key(<<"0">>)}

\* The localStorage item a page load can find.
InitialItems ==
  { NoItem, Unparseable, JsonText(Null), JsonText(Obj(<<>>)),
    JsonText(Arr(<<Num(1), Num(2)>>)) }

\* new FileService(): the constructor loads the Map from storage.
Init ==
  /\ storage \in InitialItems
  /\ files = LoadFilesFromStorage(storage)
  /\ clock = 0
  /\ pending = EmptyBag
  /\ uploads = 0
  /\ last = [op |-> "constructor"]
  /\ issued = MapKeys(files)
  /\ ui = UiInit
  /\ requests = EmptyBag
  /\ chat = ChatInit
  /\ llm = LlmInit

\* uploadFile up to its await: the file type check, then the parser is started.
UploadFile(file) ==
  /\ uploads < MaxUploads
  /\ uploads' = uploads + 1
  /\ UNCHANGED <<issued, front>>
  /\ LET fileType == GetFileType(file.name)
     IN  IF fileType = "null"
         THEN /\ last' = [op |-> "uploadFile", name |-> file.name, ok |-> FALSE,
                          error |-> <<"Unsupported file type. Please upload CSV or XLSX files.">>]
              /\ UNCHANGED <<files, storage, clock, pending>>
         ELSE /\ pending' = pending (+) SetToBag({[file |-> file, fileType |-> fileType]})
              /\ last' = [op |-> "parse", name |-> file.name]
              /\ UNCHANGED <<files, storage, clock>>

\* uploadFile with the record registered before the parser has answered: a
\* rejected parse leaves an entry without rows behind.
SettleUploadEager(p) ==
  /\ BagIn(p, pending)
  /\ pending' = pending (-) SetToBag({p})
  /\ UNCHANGED <<uploads, front>>
  /\ LET parsed == IF p.fileType = "csv" THEN ParseCSV(p.file) ELSE ParseXLSX(p.file)
         value == IF parsed.ok THEN parsed.value ELSE ParsedData(<<>>, <<>>)
     IN  \E now \in clock..MaxClock, rand \in 1..MaxRand, setItemThrows \in BOOLEAN :
         \E at \in now..MaxClock :
           LET fileData == FileData(GenerateId(now, rand), p.file, p.fileType, at, value)
           IN  /\ files' = MapSet(files, fileData.id, fileData)
               /\ issued' = issued \cup {fileData.id}
               /\ storage' = SaveFilesToStorage(files', storage, setItemThrows)
               /\ clock' = at
               /\ last' = IF parsed.ok
                          THEN [op |-> "uploadFile", name |-> p.file.name, ok |-> TRUE,
                                ret |-> fileData]
                          ELSE [op |-> "uploadFile", name |-> p.file.name, ok |-> FALSE,
                                error |-> <<"Failed to process file">> \o parsed.error]

\* uploadFile from the parser's callback on: a rejection is rethrown, a result
\* is stored under a new id and the Map is saved.
SettleUpload(p) ==
  /\ BagIn(p, pending)
  /\ pending' = pending (-) SetToBag({p})
  /\ UNCHANGED <<uploads, front>>
  /\ LET parsed == IF p.fileType = "csv" THEN ParseCSV(p.file) ELSE ParseXLSX(p.file)
     IN  IF ~parsed.ok
         THEN /\ last' = [op |-> "uploadFile", name |-> p.file.name, ok |-> FALSE,
                          error |-> <<"Failed to process file">> \o parsed.error]
              /\ UNCHANGED <<files, storage, clock, issued>>
         ELSE \E now \in clock..MaxClock, rand \in 1..MaxRand, setItemThrows \in BOOLEAN :
              \E at \in now..MaxClock :
                LET fileData == FileData(GenerateId(now, rand), p.file, p.fileType, at,
                                         parsed.value)
                IN  /\ files' = MapSet(files, fileData.id, fileData)
                    /\ issued' = issued \cup {fileData.id}
                    /\ storage' = SaveFilesToStorage(files', storage, setItemThrows)
                    /\ clock' = at
                    /\ last' = [op |-> "uploadFile", name |-> p.file.name, ok |-> TRUE,
                                ret |-> fileData]

DeleteFile(id) ==
  /\ files' = MapDelete(files, id)
  /\ IF MapHas(files, id)
     THEN \E setItemThrows \in BOOLEAN :
            storage' = SaveFilesToStorage(files', storage, setItemThrows)
     ELSE storage' = storage
  /\ last' = [op |-> "deleteFile", id |-> id, ret |-> MapHas(files, id)]
  /\ UNCHANGED <<clock, pending, uploads, issued, front>>

CallGetFiles ==
  /\ last' = [op |-> "getFiles", ret |-> GetFiles]
  /\ UNCHANGED <<files, storage, clock, pending, uploads, issued, front>>

CallGetFile(id) ==
  /\ last' = [op |-> "getFile", id |-> id, ret |-> GetFile(id)]
  /\ UNCHANGED <<files, storage, clock, pending, uploads, issued, front>>

CallSearchInFile(fileId, query) ==
  /\ last' = [op |-> "searchInFile", id |-> fileId, query |-> query,
              ret |-> SearchInFile(fileId, query)]
  /\ UNCHANGED <<files, storage, clock, pending, uploads, issued, front>>

\* A page reload: a new FileService over the same localStorage and the dialog
\* as mounted; the uploads in flight end with the page.
Reload ==
  /\ files' = LoadFilesFromStorage(storage)
  /\ pending' = EmptyBag
  /\ last' = [op |-> "constructor"]
  /\ ui' = UiInit
  /\ chat' = ChatInit
  /\ llm' = LlmInit
  /\ UNCHANGED <<storage, clock, uploads, issued, requests>>

Next ==
  \/ \E file \in Files : UploadFile(file)
  \/ \E p \in BagToSet(pending) : SettleUpload(p)
  \/ \E id \in Ids : DeleteFile(id)
  \/ CallGetFiles
  \/ \E id \in Ids : CallGetFile(id)
  \/ Reload

Spec == Init /\ [][Next]_vars

\* The store with searches running between the uploads.
NextSearch ==
  \/ \E file \in Files : UploadFile(file)
  \/ \E p \in BagToSet(pending) : SettleUpload(p)
  \/ \E id \in Ids, query \in Queries : CallSearchInFile(id, query)

SpecSearch == Init /\ [][NextSearch]_vars

\* The parsers alone: a constructed store and a CSV text about to be parsed.
InitParse ==
  /\ storage \in InitialItems
  /\ files = LoadFilesFromStorage(storage)
  /\ clock = 0
  /\ pending = EmptyBag
  /\ uploads = 0
  /\ issued = MapKeys(files)
  /\ ui = UiInit
  /\ requests = EmptyBag
  /\ chat = ChatInit
  /\ llm = LlmInit
  /\ \E csv \in CsvInputs : last = [op |-> "call", csv |-> csv]

\* parseCSV on a file with the text drawn.
CallParseCSV ==
  /\ last.op = "call"
  /\ last' = [op |-> "parseCSV", csv |-> last.csv,
              ret |-> ParseCSV(File(<<"i", ".", "c", "s", "v">>, 0, PapaParse(last.csv),
                                    NoSheet))]
  /\ UNCHANGED <<files, storage, clock, pending, uploads, issued, front>>

NextParse ==
  \/ CallParseCSV

SpecParse == InitParse /\ [][NextParse]_vars

\* The cells a generated column is made of.
Cells ==
  <<Empty, Null, Undef, Str(<<"1">>), Num(7), Str(<<"a">>),
    Str(<<"2", "0", "2", "0", "-", "0", "1">>)>>

\* The row object holding the cell under the column v; a row without the
\* property reads as undefined.
RowOf(cell) == IF cell.t = "undefined" THEN <<>> ELSE (cv :> cell)

\* The generated tables of one column: up to MaxSample cells, each multiset of
\* cells once; after them either nothing or as many empty cells as fill the
\* sample, and then nothing or one more row.
Tables ==
  LET RECURSIVE sorted(_, _)
      sorted(n, lo) ==
        IF n = 0 THEN {<<>>}
        ELSE UNION {{<<c>> \o b : b \in sorted(n - 1, c)} : c \in lo..Len(Cells)}
      bodies == UNION {sorted(n, 1) : n \in 0..MaxSample}
      rows(b) == [i \in 1..Len(b) |-> RowOf(Cells[b[i]])]
      padding(b) == [i \in 1..(SampleRows - Len(b)) |-> RowOf(Empty)]
      more == {<<>>, <<RowOf(Str(<<"1">>))>>, <<RowOf(Str(<<"a">>))>>}
  IN  UNION {{rows(b) \o pad \o extra : extra \in more, pad \in {<<>>, padding(b)}} :
               b \in bodies}

\* Type inference alone: a constructed store, an engine, and a table about to
\* be classified.
InitInfer ==
  /\ storage \in {NoItem}
  /\ files = LoadFilesFromStorage(storage)
  /\ clock = 0
  /\ pending = EmptyBag
  /\ uploads = 0
  /\ issued = MapKeys(files)
  /\ ui = UiInit
  /\ requests = EmptyBag
  /\ chat = ChatInit
  /\ llm = LlmInit
  /\ \E data \in Tables, lenient \in BOOLEAN :
       last = [op |-> "call", data |-> data, columns |-> <<Str(cv)>>, lenient |-> lenient]

CallInferDataTypes ==
  /\ last.op = "call"
  /\ last' = [op |-> "inferDataTypes", data |-> last.data, columns |-> last.columns,
              lenient |-> last.lenient,
              ret |-> InferDataTypes(last.data, last.columns, last.lenient)]
  /\ UNCHANGED <<files, storage, clock, pending, uploads, issued, front>>

NextInfer ==
  \/ CallInferDataTypes

SpecInfer == InitInfer /\ [][NextInfer]_vars

\* The CSV files whose figures are computed: columns n and v, the cells of n
\* all the same text, up to MaxLines cells of v, and before them either
\* nothing or 100 lines of the number 3, which fill the sample.
StatsFiles ==
  LET cells == {<<>>, <<"3">>, <<"1", "2">>, <<"-", "5">>, <<"a">>}
      lines(first, body, pad) ==
        [i \in 1..(pad + Len(body)) |-> <<first, IF i <= pad THEN <<"3">> ELSE body[i - pad]>>]
  IN  {File(<<"f", ".", "c", "s", "v">>, 50, PapaParse(Csv(<<cn, cv>>, lines(first, body, pad))),
            NoSheet) :
         first \in {<<"a">>, <<"1">>}, body \in SeqsUpTo(cells, MaxLines), pad \in {0, SampleRows}}

\* The statistics alone: the store as the upload of one of the files into an
\* empty store leaves it.
InitStats ==
  \E file \in StatsFiles :
    LET fileData == FileData(GenerateId(0, 1), file, "csv", 0, ParseCSV(file).value)
    IN  /\ files = <<Entry(fileData.id, fileData)>>
        /\ storage = Serialize(files)
        /\ clock = 0
        /\ pending = EmptyBag
        /\ uploads = 1
        /\ issued = {fileData.id}
        /\ ui = UiInit
        /\ requests = EmptyBag
        /\ chat = ChatInit
        /\ llm = LlmInit
        /\ last = [op |-> "uploadFile", name |-> file.name, ok |-> TRUE, ret |-> fileData]

\* getFileStats followed by a save of the Map.
CallGetFileStatsSaving(fileId) ==
  /\ last' = [op |-> "getFileStats", id |-> fileId, ret |-> GetFileStatsOf(files, fileId)]
  /\ storage' = SaveFilesToStorage(files, storage, FALSE)
  /\ UNCHANGED <<files, clock, pending, uploads, issued, front>>

CallGetFileStats(fileId) ==
  /\ last' = [op |-> "getFileStats", id |-> fileId, ret |-> GetFileStatsOf(files, fileId)]
  /\ UNCHANGED <<files, storage, clock, pending, uploads, issued, front>>

\* The dashboard rendered over the rows of a stored record: nothing for no
\* row, otherwise the charts over its numericColumns.
RenderDashboard(fileId) ==
  /\ IsFile(GetFile(fileId))
  /\ last' = [op |-> "DashboardRenderer", id |-> fileId,
              ret |-> IF GetFile(fileId).data = <<>> THEN Null
                      ELSE [numericColumns |-> DashboardNumericColumns(GetFile(fileId).data)]]
  /\ UNCHANGED <<files, storage, clock, pending, uploads, issued, front>>

NextStats ==
  \/ \E id \in Ids : CallGetFileStats(id)
  \/ \E id \in Ids : RenderDashboard(id)

SpecStats == InitStats /\ [][NextStats]_vars

(* ------------------- the upload dialog and the route ------------------ *)

Unsupported == <<"Unsupported file type. Please upload CSV or XLSX files.">>

\* handleFiles at the head of its loop with the files rest to go: no file left
\* ends the call (finally: setUploading(false)); uploadFile of a file of no
\* supported type rejects at once, which ends the call with the error shown;
\* otherwise the call awaits the upload of the first of them.
Proceed(dialog, rest) ==
  IF rest = <<>> THEN [dialog EXCEPT !.uploading = FALSE]
  ELSE IF GetFileType(Head(rest).name) = "null"
  THEN [dialog EXCEPT !.uploading = FALSE, !.error = Unsupported]
  ELSE [dialog EXCEPT !.batches = @ (+) SetToBag({rest})]

\* The files of the runs with the dialog and the route: a CSV and a sheet
\* that parse, a CSV and a sheet that cannot be read, and a PDF.
LiveFiles ==
  {f \in Files : f.name \in {<<"a", ".", "c", "s", "v">>, <<"e", ".", "c", "s", "v">>,
                              <<"s", ".", "x", "l", "s", "x">>, <<"r", ".", "x", "l", "s", "x">>,
                              <<"r", ".", "p", "d", "f">>}}

\* handleFiles(files), from a drop or a selection of at least one file, up to
\* its first await.
HandleFiles(batch) ==
  /\ batch # <<>>
  /\ uploads + Len(batch) <= MaxUploads
  /\ uploads' = uploads + Len(batch)
  /\ ui' = Proceed([ui EXCEPT !.error = <<>>, !.uploading = TRUE], batch)
  /\ last' = IF GetFileType(Head(batch).name) = "null"
             THEN [op |-> "uploadFile", name |-> Head(batch).name, ok |-> FALSE,
                   error |-> Unsupported]
             ELSE [op |-> "parse", name |-> Head(batch).name]
  /\ UNCHANGED <<files, storage, clock, pending, issued, requests, page>>

\* The parser's callback for the upload a handleFiles call awaits, with what
\* follows it in the same task: uploadFile stores the record or throws, and
\* handleFiles goes on to its next file or, on the throw, to catch and finally.
UiSettle(batch) ==
  /\ BagIn(batch, ui.batches)
  /\ LET file == Head(batch)
         fileType == GetFileType(file.name)
         parsed == IF fileType = "csv" THEN ParseCSV(file) ELSE ParseXLSX(file)
         dialog == [ui EXCEPT !.batches = @ (-) SetToBag({batch})]
     IN  IF ~parsed.ok
         THEN /\ ui' = [dialog EXCEPT !.uploading = FALSE,
                                      !.error = <<"Failed to process file">> \o parsed.error]
              /\ last' = [op |-> "uploadFile", name |-> file.name, ok |-> FALSE,
                          error |-> <<"Failed to process file">> \o parsed.error]
              /\ UNCHANGED <<files, storage, clock, issued>>
         ELSE \E now \in clock..MaxClock, rand \in 1..MaxRand, setItemThrows \in BOOLEAN :
              \E at \in now..MaxClock :
                LET fileData == FileData(GenerateId(now, rand), file, fileType, at, parsed.value)
                IN  /\ files' = MapSet(files, fileData.id, fileData)
                    /\ issued' = issued \cup {fileData.id}
                    /\ storage' = SaveFilesToStorage(files', storage, setItemThrows)
                    /\ clock' = at
                    /\ ui' = Proceed(dialog, Tail(batch))
                    /\ last' = [op |-> "uploadFile", name |-> file.name, ok |-> TRUE,
                                ret |-> fileData]
  /\ UNCHANGED <<pending, uploads, requests, page>>

\* POST of the upload route up to the await of its parser. Where the runtime
\* has no FileReader, new FileReader() throws in the promise's executor and
\* the request is answered 500 at once.
RoutePost(file) ==
  /\ uploads < MaxUploads
  /\ uploads' = uploads + 1
  /\ \E hasFileReader \in BOOLEAN :
       IF GetFileType(file.name) = "null"
       THEN /\ last' = [op |-> "POST", name |-> file.name, status |-> 400]
            /\ UNCHANGED requests
       ELSE IF ~hasFileReader
       THEN /\ last' = [op |-> "POST", name |-> file.name, status |-> 500]
            /\ UNCHANGED requests
       ELSE /\ requests' = requests (+) SetToBag({[file |-> file, reading |-> TRUE]})
            /\ last' = [op |-> "read", name |-> file.name]
  /\ UNCHANGED <<files, storage, clock, pending, issued, ui, page>>

\* The FileReader's event for a request of the route. The route's parseCSV
\* sets onload only: the error event of a CSV file that cannot be read finds no
\* handler, and its promise is never settled. Every other event settles the
\* promise and the request is answered, 200 with the record or 500.
RouteReaderEvent(request) ==
  /\ BagIn(request, requests)
  /\ request.reading
  /\ LET file == request.file
         fileType == GetFileType(file.name)
         parsed == IF fileType = "csv" THEN ParseCSV(file) ELSE ParseXLSX(file)
     IN  IF fileType = "csv" /\ file.papa.outcome = "error"
         THEN /\ requests' = (requests (-) SetToBag({request}))
                               (+) SetToBag({[request EXCEPT !.reading = FALSE]})
              /\ last' = [op |-> "readerror", name |-> file.name]
              /\ UNCHANGED clock
         ELSE /\ requests' = requests (-) SetToBag({request})
              /\ IF ~parsed.ok
                 THEN /\ last' = [op |-> "POST", name |-> file.name, status |-> 500]
                      /\ UNCHANGED clock
                 ELSE \E now \in clock..MaxClock, rand \in 1..MaxRand :
                      \E at \in now..MaxClock :
                        /\ clock' = at
                        /\ last' = [op |-> "POST", name |-> file.name, status |-> 200,
                                    body |-> FileData(GenerateId(now, rand), file, fileType,
                                                      at, parsed.value)]
  /\ UNCHANGED <<files, storage, pending, uploads, issued, ui, page>>

\* The dialog and the route; the callbacks of the file reads and of the
\* parsers are scheduled fairly.
NextLive ==
  \/ \E batch \in SeqsUpTo(LiveFiles, MaxUploads) : HandleFiles(batch)
  \/ \E batch \in BagToSet(ui.batches) : UiSettle(batch)
  \/ \E file \in LiveFiles : RoutePost(file)
  \/ \E request \in BagToSet(requests) : RouteReaderEvent(request)

SpecLive ==
  /\ Init
  /\ [][NextLive]_vars
  /\ WF_vars(\E batch \in BagToSet(ui.batches) : UiSettle(batch))
  /\ WF_vars(\E request \in BagToSet(requests) : RouteReaderEvent(request))

(* ------------------------ consumers of the records -------------------- *)

\* The records a consumer received from the call that ran last: getFile hands
\* out the Map's own value, getFiles a new array of the Map's own values.
Held ==
  CASE last.op = "getFile" -> {last.ret}
    [] last.op = "getFiles" -> {last.ret[i] : i \in 1..Len(last.ret)}
    [] OTHER -> {}

\* The record after a consumer's assignment through its reference: part is
\* the array reached (record.data, record.preview or record.columns) and i the
\* element; a row takes the value x under the column v, a column name becomes
\* x. The rows of preview are the first rows of data (data.slice(0, 10) copies
\* the array and not the row objects), so an assignment to a row shows in both.
Assign(record, part, i) ==
  LET x == Str(<<"x">>)
      row == (cv :> x) @@ record.data[i]
  IN  IF part = "columns"
      THEN [record EXCEPT !.columns[i] = x]
      ELSE [record EXCEPT !.data[i] = row,
                          !.preview = IF i <= Len(@) THEN [@ EXCEPT ![i] = row] ELSE @]

\* A consumer assigns into a record it received. The record is the object the
\* Map holds, so the Map's value is what changes; nothing is saved.
ConsumerWrites(record, part, i) ==
  /\ record \in Held
  /\ record.t = "FileData"
  /\ MapGet(files, record.id) = record
  /\ part \in {"data", "preview", "columns"}
  /\ i \in DOMAIN record[part]
  /\ i \in {1, IF part = "data" THEN Len(record.data) ELSE 1}
  /\ Assign(record, part, i) # record
  /\ files' = MapSet(files, record.id, Assign(record, part, i))
  /\ last' = [op |-> "assign", id |-> record.id, part |-> part, index |-> i,
              before |-> record]
  /\ UNCHANGED <<storage, clock, pending, uploads, issued, front>>

\* The files whose records the consumers receive: a CSV of eleven rows, one
\* more than its preview, and a sheet.
ViewFiles ==
  {f \in Files : f.name \in {<<"b", ".", "c", "s", "v">>, <<"s", ".", "x", "l", "s", "x">>}}

\* The store and its consumers. No page is reloaded here: every record is the
\* object uploadFile built.
NextViews ==
  \/ \E file \in ViewFiles : UploadFile(file)
  \/ \E p \in BagToSet(pending) : SettleUpload(p)
  \/ CallGetFiles
  \/ \E id \in Ids : CallGetFile(id)
  \/ \E record \in Held, part \in {"data", "preview", "columns"}, i \in 1..(PreviewRows + 1) :
       ConsumerWrites(record, part, i)

SpecViews == Init /\ [][NextViews]_vars

\* The store with its four reads running between the uploads.
NextReads ==
  \/ \E file \in ViewFiles : UploadFile(file)
  \/ \E p \in BagToSet(pending) : SettleUpload(p)
  \/ CallGetFiles
  \/ \E id \in Ids : CallGetFile(id)
  \/ \E id \in Ids, query \in Queries : CallSearchInFile(id, query)
  \/ \E id \in Ids : CallGetFileStats(id)

SpecReads == Init /\ [][NextReads]_vars

(* -------------------------- the query interface ----------------------- *)

\* The texts typed and shown: a query, the reply of the model, the text that
\* reports an error of the model, and the text shown without a connection.
ChatQueries == {<<"show data">>}
Replies == {<<"response">>, <<"I encountered an error with the local LLM">>}
ConnectText == <<"Please connect your local Llama 3.1:8B model">>

\* The ids of the sessions listed, each of which has a delete button, a name
\* field and a row to click.
ChatIds == {chat.chatSessions[i].id : i \in 1..Len(chat.chatSessions)}

\* prev.map(chat => chat.id === currentChatId ? {...chat, messages: [...chat.messages,
\* newMessage]} : chat)
AddMessage(sessions, chatId, message) ==
  [i \in 1..Len(sessions) |->
     IF sessions[i].id = chatId
     THEN [sessions[i] EXCEPT !.messages = Append(@, message)]
     ELSE sessions[i]]

\* The update handleSubmit ends with: in the sessions with the id, every
\* message with the id loadingMessageId becomes {...msg, content, isLoading: false}.
ReplaceLoading(sessions, chatId, loadingMessageId, content) ==
  [i \in 1..Len(sessions) |->
     IF sessions[i].id = chatId
     THEN [sessions[i] EXCEPT !.messages =
             [k \in 1..Len(@) |->
                IF @[k].id = loadingMessageId
                THEN [content |-> content, isLoading |-> FALSE] @@ @[k]
                ELSE @[k]]]
     ELSE sessions[i]]

\* handleSubmit of a query, up to its await or, without a connection, to its
\* end. Date.now() is read three times: for the id of the user's message, for
\* loadingMessageId, and for the id of the placeholder. The send button is
\* disabled while isLoading. placeholder is history: the position of the
\* placeholder among the messages of its session, 0 when no session has the
\* current id and the messages are added to none.
Submit(query, connected) ==
  /\ ~chat.isLoading
  /\ \A i \in 1..Len(chat.chatSessions) : Len(chat.chatSessions[i].messages) + 2 <= MaxMessages
  /\ \E t1 \in clock..MaxClock :
     \E t2 \in t1..MaxClock :
     \E t3 \in t2..MaxClock :
       LET chatId == chat.currentChatId
           user == [id |-> NowText(t1), type |-> "user", content |-> query]
           loading == [id |-> NowText(t3), type |-> "assistant", content |-> <<>>,
                       isLoading |-> TRUE]
           added == AddMessage(AddMessage(chat.chatSessions, chatId, user), chatId, loading)
           current == {i \in 1..Len(added) : added[i].id = chatId}
           call == [chatId |-> chatId, loadingMessageId |-> NowText(t2),
                    placeholder |-> IF current = {} THEN 0
                                    ELSE Len(added[CHOOSE i \in current : TRUE].messages)]
       IN  /\ clock' = t3
           /\ IF connected
              THEN /\ chat' = [chat EXCEPT !.chatSessions = added, !.isLoading = TRUE,
                                           !.awaiting = {call}]
                   /\ last' = [op |-> "handleSubmit", query |-> query]
              ELSE /\ chat' = [chat EXCEPT !.chatSessions =
                                 ReplaceLoading(added, chatId, call.loadingMessageId, ConnectText)]
                   /\ last' = [op |-> "reply", call |-> call, content |-> ConnectText,
                               before |-> added]
  /\ UNCHANGED <<files, storage, pending, uploads, issued, ui, requests, llm>>

\* handleSubmit from the answer of the model on: the reply or the error text
\* replaces the content of the messages with the id loadingMessageId in the
\* session that was current at the submit; finally setIsLoading(false).
SettleSubmit(call, content) ==
  /\ call \in chat.awaiting
  /\ chat' = [chat EXCEPT !.chatSessions = ReplaceLoading(@, call.chatId,
                                                          call.loadingMessageId, content),
                          !.isLoading = FALSE, !.awaiting = {}]
  /\ last' = [op |-> "reply", call |-> call, content |-> content,
              before |-> chat.chatSessions]
  /\ UNCHANGED <<files, storage, clock, pending, uploads, issued, ui, requests, llm>>

CreateNewChat ==
  /\ Len(chat.chatSessions) < MaxChats
  /\ \E now \in clock..MaxClock :
       /\ clock' = now
       /\ chat' = [chat EXCEPT !.chatSessions =
                                 <<[id |-> NowText(now), name |-> <<"New Chat">>,
                                    messages |-> <<>>]>> \o @,
                               !.currentChatId = NowText(now)]
  /\ last' = [op |-> "createNewChat"]
  /\ UNCHANGED <<files, storage, pending, uploads, issued, ui, requests, llm>>

DeleteChat(chatId) ==
  /\ chatId \in ChatIds
  /\ LET differs(session) == session.id # chatId
         remainingChats == SelectSeq(chat.chatSessions, differs)
     IN  chat' = IF Len(chat.chatSessions) <= 1 THEN chat
                 ELSE [chat EXCEPT !.chatSessions = remainingChats,
                                   !.currentChatId =
                                      IF @ # chatId THEN @
                                      ELSE IF remainingChats # <<>> THEN remainingChats[1].id
                                      ELSE FirstChatId]
  /\ last' = [op |-> "deleteChat", id |-> chatId, sessions |-> Len(chat.chatSessions)]
  /\ UNCHANGED <<files, storage, clock, pending, uploads, issued, ui, requests, llm>>

RenameChat(chatId, newName) ==
  /\ chatId \in ChatIds
  /\ chat' = [chat EXCEPT !.chatSessions =
                [i \in 1..Len(@) |-> IF @[i].id = chatId THEN [@[i] EXCEPT !.name = newName]
                                     ELSE @[i]]]
  /\ last' = [op |-> "renameChat", id |-> chatId]
  /\ UNCHANGED <<files, storage, clock, pending, uploads, issued, ui, requests, llm>>

\* A click on a session of the list: setCurrentChatId(chat.id).
SelectChat(chatId) ==
  /\ chatId \in ChatIds
  /\ chat' = [chat EXCEPT !.currentChatId = chatId]
  /\ last' = [op |-> "setCurrentChatId", id |-> chatId]
  /\ UNCHANGED <<files, storage, clock, pending, uploads, issued, ui, requests, llm>>

NextChat ==
  \/ \E query \in ChatQueries, connected \in BOOLEAN : Submit(query, connected)
  \/ \E call \in chat.awaiting, content \in Replies : SettleSubmit(call, content)
  \/ CreateNewChat
  \/ \E chatId \in ChatIds : DeleteChat(chatId)
  \/ \E chatId \in ChatIds : RenameChat(chatId, <<"x">>)
  \/ \E chatId \in ChatIds : SelectChat(chatId)

\* The page as loaded with nothing in localStorage.
InitPage == Init /\ storage = NoItem

SpecChat == InitPage /\ [][NextChat]_vars

(* --------------------------- the LLM service -------------------------- *)

\* The model names updateConfig sets, and the lists of models the server
\* answers /api/tags with: none, another model, a model of the same family.
ModelNames == {DefaultModel, <<"m">>, <<"l", ":", "7">>}
ServerModels == {<<>>, <<[name |-> <<"m">>]>>, <<[name |-> <<"l", ":", "7">>]>>}

\* s.split(':')[0] and s.startsWith(p)
SplitFirst(s) ==
  LET colons == {i \in 1..Len(s) : s[i] = ":"}
  IN  IF colons = {} THEN s
      ELSE SubSeq(s, 1, (CHOOSE i \in colons : \A j \in colons : i <= j) - 1)
StartsWith(s, p) == Len(p) <= Len(s) /\ SubSeq(s, 1, Len(p)) = p

UpdateConfig(model) ==
  /\ llm' = [llm EXCEPT !.config.model = model]
  /\ last' = [op |-> "updateConfig", model |-> model]
  /\ UNCHANGED <<files, storage, clock, pending, uploads, issued, ui, requests, chat>>

\* testConnection up to its await of fetch.
TestConnection ==
  /\ llm.tests < MaxTests
  /\ llm' = [llm EXCEPT !.connectionStatus = "connecting", !.tests = @ + 1]
  /\ last' = [op |-> "fetch"]
  /\ UNCHANGED <<files, storage, clock, pending, uploads, issued, ui, requests, chat>>

\* testConnection from the answer of fetch on. The answer is a response that
\* is ok with a list of models, a response that is not ok, or an exception
\* (of fetch or of response.json()).
SettleTest(answer, models) ==
  /\ llm.tests > 0
  /\ LET matches(model) == \/ model.name = llm.config.model
                           \/ StartsWith(model.name, SplitFirst(llm.config.model))
         modelExists == \E i \in 1..Len(models) : matches(models[i])
         settled == [llm EXCEPT !.tests = @ - 1]
     IN  CASE answer = "ok" /\ modelExists ->
                /\ llm' = [settled EXCEPT !.isConnected = TRUE, !.connectionStatus = "connected"]
                /\ last' = [op |-> "testConnection", answer |-> answer, models |-> models, ret |-> TRUE]
           [] answer = "ok" /\ ~modelExists ->
                /\ llm' = [settled EXCEPT !.connectionStatus = "error"]
                /\ last' = [op |-> "testConnection", answer |-> answer, models |-> models, ret |-> FALSE]
           [] answer = "not ok" ->
                /\ llm' = [settled EXCEPT !.connectionStatus = "error"]
                /\ last' = [op |-> "testConnection", answer |-> answer, models |-> models, ret |-> FALSE]
           [] OTHER ->
                /\ llm' = [settled EXCEPT !.connectionStatus = "error", !.isConnected = FALSE]
                /\ last' = [op |-> "testConnection", answer |-> answer, models |-> models, ret |-> FALSE]
  /\ UNCHANGED <<files, storage, clock, pending, uploads, issued, ui, requests, chat>>

\* generateResponse up to its fetch: it throws unless isConnected.
GenerateResponse ==
  /\ last' = [op |-> "generateResponse", proceeds |-> llm.isConnected,
              status |-> llm.connectionStatus]
  /\ UNCHANGED <<files, storage, clock, pending, uploads, issued, front>>

NextLlm ==
  \/ \E model \in ModelNames : UpdateConfig(model)
  \/ TestConnection
  \/ \E answer \in {"ok", "not ok", "throws"}, models \in ServerModels :
       SettleTest(answer, models)
  \/ GenerateResponse

SpecLlm == InitPage /\ [][NextLlm]_vars

(* ----------------------------- properties ----------------------------- *)

Stored == {i \in 1..Len(files) : IsFile(files[i].value)}
Uploaded == last.op = "uploadFile" /\ last.ok
UploadFailed == last.op = "uploadFile" /\ ~last.ok
\* The keys of the persisted id -> record map.
PersistedKeys(stored) == MapKeys(LoadFilesFromStorage(stored))

\* C1: a record returned by uploadFile is what getFile returns for its id
\* right after the upload, and every later step of the same store, other than
\* deleteFile of that id, leaves what getFile returns for it unchanged.
C1_RoundTrip ==
  [][ /\ Uploaded' => GetFileOf(files', last'.ret.id) = last'.ret
      /\ \A id \in Ids :
           ( /\ IsFile(GetFile(id))
             /\ last'.op # "constructor"
             /\ ~(last'.op = "deleteFile" /\ last'.id = id) )
           => GetFileOf(files', id) = GetFile(id) ]_vars

\* C2: deleteFile of a stored id returns true and leaves the id absent from
\* getFile, from getFiles and from the persisted map; deleteFile of an id
\* that is not stored (a second delete included) returns false and changes
\* neither the Map nor the persisted item.
C2_DeleteIdempotent ==
  [][ last'.op = "deleteFile" =>
        IF IsFile(GetFile(last'.id))
        THEN /\ last'.ret = TRUE
             /\ GetFileOf(files', last'.id) = Null
             /\ \A i \in 1..Len(files') :
                  GetFilesOf(files')[i] # MapGet(files, last'.id)
             /\ last'.id \notin PersistedKeys(storage')
        ELSE MapHas(files, last'.id) \/ ( /\ last'.ret = FALSE
                                           /\ files' = files
                                           /\ storage' = storage ) ]_vars

\* C3: an uploadFile call that rejects (unsupported type, parser error, empty
\* sheet, read error) leaves the Map and the persisted item as they were.
C3_FailedUploadLeavesStore ==
  [][ UploadFailed' => files' = files /\ storage' = storage ]_vars

\* C3 witness: a parse failure reported while a record is stored and persisted.
C3_Witness ==
  /\ UploadFailed
  /\ last.error = <<"Failed to process file", "Excel file is empty">>
  /\ Stored # {}
  /\ storage = Serialize(files)

\* The extension of a file name as the claims mean it: the text after the
\* last '.', compared without case; a name without '.' has none.
HasExtension(name, ext) ==
  \E i \in 1..Len(name) :
    /\ name[i] = "."
    /\ \A j \in (i + 1)..Len(name) : name[j] # "."
    /\ Len(name) - i = Len(ext)
    /\ \A k \in 1..Len(ext) : name[i + k] = ext[k] \/ Lower(name[i + k]) = ext[k]
Supported(name) ==
  \/ HasExtension(name, <<"c", "s", "v">>)
  \/ HasExtension(name, <<"x", "l", "s", "x">>)
  \/ HasExtension(name, <<"x", "l", "s">>)

\* C4: for a file name whose extension is not csv, xlsx or xls (a name with no
\* extension included) uploadFile starts no parser and rejects with the
\* unsupported-file-type error, storing nothing.
C4_UnsupportedRejected ==
  [][ /\ last'.op = "parse" => Supported(last'.name)
      /\ (last'.op = "uploadFile" /\ ~Supported(last'.name)) =>
           /\ ~last'.ok
           /\ last'.error = <<"Unsupported file type. Please upload CSV or XLSX files.">>
           /\ pending' = pending
           /\ files' = files
           /\ storage' = storage ]_vars

\* C5: an upload whose parse yields no data row fails, so every stored record
\* has rowCount >= 1.
C5_NoEmptyDocument ==
  /\ Uploaded => last.ret.rowCount >= 1
  /\ \A i \in Stored : files[i].value.rowCount >= 1

\* C6: getFiles returns every stored record once, newest uploadedAt first, and
\* of two records with the same uploadedAt the one inserted later first.
C6_ListOrder ==
  Stored = 1..Len(files) =>
    LET list == GetFiles
        time(r) == DateGetTime(r.uploadedAt)
    IN  /\ Len(list) = Len(files)
        /\ \A i \in 1..Len(files) : \E j \in 1..Len(list) : list[j] = files[i].value
        /\ \A i, j \in 1..Len(list) :
             i < j =>
               \/ time(list[i]) > time(list[j])
               \/ /\ time(list[i]) = time(list[j])
                  /\ MapIndex(files, list[i].id) > MapIndex(files, list[j].id)

\* Two characters that differ at most in case.
SameLetter(a, b) ==
  \/ a = b
  \/ {a, b} \in {{"a", "A"}, {"b", "B"}, {"c", "C"}, {"s", "S"}, {"v", "V"}, {"x", "X"},
                 {"l", "L"}}
\* text contains query, case ignored.
ContainsIgnoringCase(text, query) ==
  \E i \in 0..(Len(text) - Len(query)) :
    \A k \in 1..Len(query) : SameLetter(text[i + k], query[k])
Matching(rows, query) ==
  {i \in 1..Len(rows) :
     \E k \in DOMAIN rows[i] : ContainsIgnoringCase(String(rows[i][k]), query)}

\* C7: searchInFile(id, query) returns, in their original order, exactly the
\* rows of the file of which some field value, as a string, contains query
\* without regard to case; for an id the Map does not hold it returns the
\* empty sequence; it does not throw in either case.
C7_Search ==
  last.op = "searchInFile" =>
    IF ~MapHas(files, last.id)
    THEN last.ret = Return(<<>>)
    ELSE IsFile(MapGet(files, last.id)) =>
           LET rows == MapGet(files, last.id).data
               hits == Matching(rows, last.query)
               found == last.ret.value
           IN  /\ ~last.ret.throws
               /\ Len(found) = Cardinality(hits)
               /\ \A n \in 1..Len(found) :
                    \E i \in hits : /\ Cardinality({h \in hits : h <= i}) = n
                                    /\ found[n] = rows[i]

\* C7 witness: a query in mixed case finds one row of two, whose cell differs
\* from it in case.
C7_Witness ==
  /\ last.op = "searchInFile"
  /\ last.query = <<"a", "B">>
  /\ IsFile(GetFile(last.id))
  /\ Len(GetFile(last.id).data) = 2
  /\ Len(last.ret.value) = 1
  /\ last.ret.value[1][cn] = Str(<<"A", "b">>)

\* C8: after every uploadFile and deleteFile that changed a Map of records,
\* the persisted item is the serialization of the Map, whether or not setItem
\* threw.
C8_PersistAtomic ==
  [][ ( /\ last'.op \in {"uploadFile", "deleteFile"}
        /\ Stored = 1..Len(files)
        /\ files' # files )
        => storage' = Serialize(files') ]_vars

\* A persisted item that holds an id -> record mapping.
IsRecordMap(stored) ==
  /\ stored.k = "json"
  /\ stored.v.t = "object"
  /\ \A i \in 1..Len(stored.v.entries) :
       /\ IsFile(stored.v.entries[i].value)
       /\ stored.v.entries[i].value.id = stored.v.entries[i].key

\* C9: a store constructed over a persisted item that is absent, is no JSON, or
\* is JSON but no id -> record mapping, is empty.
C9_StartupDegrades ==
  (last.op = "constructor" /\ ~IsRecordMap(storage)) => GetFiles = <<>>

\* C10: a store constructed afresh over the persisted item holds the same ids
\* with equal records, listed by getFiles in the same order, as the store that
\* wrote the item.
C10_RestartRoundTrip ==
  [][ (last'.op = "constructor" /\ Stored = 1..Len(files))
        => files' = files /\ GetFilesOf(files') = GetFiles ]_vars

\* C11: every successful uploadFile assigns an id under which nothing was ever
\* stored before (deleted records included), so the upload adds exactly one
\* entry to the Map and leaves every entry that was there as it was.
C11_IdUnique ==
  [][ Uploaded' =>
        /\ last'.ret.id \notin issued
        /\ Len(files') = Len(files) + 1
        /\ \A i \in 1..Len(files) : files'[i] = files[i] ]_vars

\* The lines of a CSV text that hold data: its non-empty lines, by position.
DataLines(csv) == {i \in 1..Len(csv.lines) : csv.lines[i] # <<<<>>>>}
\* A valid CSV text: a header of distinct names and every data line with one
\* field per header name.
ValidCsv(csv) ==
  /\ \A i, j \in 1..Len(csv.header) : csv.header[i] = csv.header[j] => i = j
  /\ \A i \in DataLines(csv) : Len(csv.lines[i]) = Len(csv.header)

\* C12: parseCSV of a valid CSV text with header h1..hn and m non-empty data
\* lines resolves with columns = [h1..hn], the m lines as rows in source order,
\* each the object of its fields by column, and rowCount = m.
C12_CsvParsing ==
  (last.op = "parseCSV" /\ ValidCsv(last.csv)) =>
    LET csv == last.csv
        m == Cardinality(DataLines(csv))
        table == last.ret.value
    IN  /\ last.ret.ok
        /\ table.columns = [j \in 1..Len(csv.header) |-> Str(csv.header[j])]
        /\ Len(table.data) = m
        /\ table.rowCount = m
        /\ \A i \in DataLines(csv) :
             LET r == Cardinality({k \in DataLines(csv) : k <= i})
             IN  \A j \in 1..Len(csv.header) :
                   table.data[r][csv.header[j]] = Str(csv.lines[i][j])

\* C13: in every stored record the column names are strings, pairwise
\* distinct, and the keys of every row are exactly the column names.
C13_Rectangular ==
  \A i \in Stored :
    LET record == files[i].value
        columns == record.columns
    IN  /\ \A j \in 1..Len(columns) : columns[j].t = "string"
        /\ \A j, k \in 1..Len(columns) : columns[j] = columns[k] => j = k
        /\ \A r \in 1..Len(record.data) :
             DOMAIN record.data[r] = {String(columns[j]) : j \in 1..Len(columns)}

\* C14: in every reachable state the preview of every stored record is the
\* first min(10, rows.length) rows of its data, in order; so is the preview of
\* the record an upload returns.
C14_Preview ==
  LET FirstTen(record) ==
        /\ Len(record.preview) = IF Len(record.data) < 10 THEN Len(record.data) ELSE 10
        /\ \A k \in 1..Len(record.preview) : record.preview[k] = record.data[k]
  IN  /\ \A i \in Stored : FirstTen(files[i].value)
      /\ Uploaded => FirstTen(last.ret)

\* C14 witness: a store loaded from the persisted item holds a record of more
\* than 10 rows.
C14_Witness ==
  /\ last.op = "constructor"
  /\ \E i \in Stored : Len(files[i].value.data) > 10 /\ Len(files[i].value.preview) = 10

\* The rows of the sample whose cell for the column is not dropped: the first
\* 100 rows, the cells that are '', null or undefined left out.
Sampled(data, column) ==
  {i \in 1..Len(data) :
     /\ i <= 100
     /\ column \in DOMAIN data[i]
     /\ data[i][column] \notin {Empty, Null, Undef}}
\* Those of them that parse as numbers, and those that parse as dates on the
\* engine the program runs on.
SampledNumbers(data, column) ==
  {i \in Sampled(data, column) : ~NumberIsNaN(data[i][column])}
SampledDates(data, column, lenient) ==
  {i \in Sampled(data, column) : ~DateParseIsNaN(data[i][column], lenient)}

C16_AtLeast80 ==
  last.op = "inferDataTypes" =>
    LET n == Cardinality(Sampled(last.data, cv))
        numbers == Cardinality(SampledNumbers(last.data, cv))
    IN  (n > 0 /\ 10 * numbers >= 8 * n) => last.ret[cv] = "numeric"

\* C16 amended: a column of whose sampled values (the first 100 rows, empty
\* cells left out) strictly more than 80% parse as numbers is classified
\* numeric.
C16_MoreThan80 ==
  last.op = "inferDataTypes" =>
    LET n == Cardinality(Sampled(last.data, cv))
        numbers == Cardinality(SampledNumbers(last.data, cv))
    IN  (n > 0 /\ 10 * numbers > 8 * n) => last.ret[cv] = "numeric"

\* C16 witness: five numbers among six sampled values, empty cells and a row
\* past the sample beside them, classified numeric.
C16_Witness ==
  /\ last.op = "inferDataTypes"
  /\ Cardinality(Sampled(last.data, cv)) = 6
  /\ Cardinality(SampledNumbers(last.data, cv)) = 5
  /\ Len(last.data) > 100
  /\ last.ret[cv] = "numeric"

\* C18: the block of figures getFileStats reports for a column counts the
\* cells of the whole column that are not empty and parse as numbers, and
\* gives the minimum, the maximum and sum / count of exactly those numbers; a
\* block is reported only when there is such a cell.
C18_NumericStats ==
  (last.op = "getFileStats" /\ IsFile(GetFile(last.id))) =>
    LET block == last.ret.value.sampleStats
        data == GetFile(last.id).data
        cell(i) == data[i][block.column.s]
        parsed == {i \in 1..Len(data) : cell(i) # Empty /\ ~NumberIsNaN(cell(i))}
        number(i) == ToNumber(cell(i)).n
        RECURSIVE total(_, _)
        total(from, to) ==
          IF from > to THEN 0
          ELSE IF from = to THEN (IF from \in parsed THEN number(from) ELSE 0)
          ELSE total(from, (from + to) \div 2) + total((from + to) \div 2 + 1, to)
    IN  block # Undef =>
          /\ parsed # {}
          /\ block.count = Cardinality(parsed)
          /\ \E i \in parsed : block.min = number(i)
          /\ \E i \in parsed : block.max = number(i)
          /\ \A i \in parsed : block.min <= number(i) /\ number(i) <= block.max
          /\ block.avg.num * Cardinality(parsed) = total(1, Len(data)) * block.avg.den

\* C19: however uploads in flight and deletes interleave, an upload that
\* succeeds leaves its record in the Map and in the persisted map and leaves
\* every record stored before as it was, and a delete leaves every record but
\* that of its id as it was.
C19_Interleaving ==
  [][ /\ Uploaded' =>
           /\ GetFileOf(files', last'.ret.id) = last'.ret
           /\ MapGet(LoadFilesFromStorage(storage'), last'.ret.id) = ToJSON(last'.ret)
           /\ \A i \in 1..Len(files) : MapGet(files', files[i].key) = files[i].value
      /\ last'.op = "deleteFile" =>
           \A i \in 1..Len(files) :
             files[i].key # last'.id => MapGet(files', files[i].key) = files[i].value ]_vars

\* An upload is under way: a handleFiles call awaits one, or the route has a
\* request it has not answered.
InFlight == ui.batches # EmptyBag \/ requests # EmptyBag

\* C20: whenever an upload is under way, eventually none is: each has
\* completed with a record or failed with an error; and whenever the dialog's
\* uploading flag is set, eventually it is not.
C20_UploadsSettle ==
  /\ InFlight ~> ~InFlight
  /\ ui.uploading ~> ~ui.uploading

\* C21: a consumer's assignment into a record it received through getFile or
\* getFiles changes nothing the store holds: getFile(id) returns afterwards
\* what it returned before; and an assignment to a row of preview leaves data
\* as it was, an assignment to a row of data leaves preview as it was.
C21_ReadOnlyViews ==
  [][last'.op = "assign" =>
       /\ GetFileOf(files', last'.id) = last'.before
       /\ last'.part = "preview" => GetFileOf(files', last'.id).data = last'.before.data
       /\ last'.part = "data" => GetFileOf(files', last'.id).preview = last'.before.preview]_vars

\* C22: the record of an uploaded sheet has, for every data row i and every
\* header position j, under header[j] the cell at position j of row i when
\* the row has one, whatever its value, and the empty string when it has none.
C22_SheetRows ==
  \A f \in Files :
    (Uploaded /\ last.name = f.name /\ GetFileType(f.name) = "xlsx") =>
      LET jsonData == f.sheet.jsonData
          headers == jsonData[1]
      IN  /\ Len(last.ret.data) = Len(jsonData) - 1
          /\ \A i \in 1..(Len(jsonData) - 1) :
               \A j \in {k \in 1..Len(headers) : headers[k].t # "undefined"} :
                 LET cell == At(jsonData[i + 1], j)
                 IN  last.ret.data[i][String(headers[j])] =
                       IF cell.t = "undefined" THEN Empty ELSE cell

\* C23: the types inferDataTypes gives a table of 100 rows or more are the
\* types it gives every table with the same first 100 rows, whatever rows
\* follow them: none, a number, a text, or both.
C23_BoundedSample ==
  (last.op = "inferDataTypes" /\ Len(last.data) >= SampleRows) =>
    \A rest \in {<<>>, <<RowOf(Str(<<"1">>))>>, <<RowOf(Str(<<"a">>))>>,
                 <<RowOf(Str(<<"1">>)), RowOf(Str(<<"a">>))>>} :
      InferDataTypes(Slice(last.data, 0, SampleRows) \o rest, last.columns, last.lenient)
        = last.ret

\* C23 witness: four numbers among the five values of the first 100 rows and
\* a number in row 101, which would make them five of six; classified text.
C23_Witness ==
  /\ last.op = "inferDataTypes"
  /\ Len(last.data) = SampleRows + 1
  /\ last.data[SampleRows + 1] = RowOf(Str(<<"1">>))
  /\ Cardinality(Sampled(last.data, cv)) = 5
  /\ Cardinality(SampledNumbers(last.data, cv)) = 4
  /\ last.ret[cv] = "text"

\* C24: the columns getFileStats reports a block of figures for are the
\* columns inferDataTypes classifies numeric that hold a value parsing as a
\* number: each of them, and no column classified text, date or unknown.
C24_StatsCoverage ==
  (last.op = "getFileStats" /\ IsFile(GetFile(last.id))) =>
    LET file == GetFile(last.id)
        block == last.ret.value.sampleStats
        reported == IF block = Undef THEN {} ELSE {block.column}
        parses(val) == val # Empty /\ ~NumberIsNaN(val)
        covered(lenient) ==
          {file.columns[j] : j \in
             {k \in 1..Len(file.columns) :
                /\ InferColumn(file.data, file.columns[k], lenient) = "numeric"
                /\ \E i \in 1..Len(file.data) : parses(RowGet(file.data[i], file.columns[k]))}}
    IN  \A lenient \in BOOLEAN : reported = covered(lenient)

\* C25: for a table of at most 50 rows and each of its columns, the dashboard
\* renderer, the numericColumns filter of getFileStats and inferDataTypes
\* agree on whether the column is numeric.
C25_OneClassification ==
  (last.op = "DashboardRenderer" /\ last.ret # Null /\ Len(GetFile(last.id).data) <= DashboardRows) =>
    LET file == GetFile(last.id)
    IN  \A j \in 1..Len(file.columns), lenient \in BOOLEAN :
          /\ String(file.columns[j]) \in last.ret.numericColumns
               <=> StatsNumeric(file.data, file.columns[j])
          /\ StatsNumeric(file.data, file.columns[j])
               <=> InferColumn(file.data, file.columns[j], lenient) = "numeric"

\* C26: a file of a dropped or selected batch that parses is in the end
\* stored, whatever happens to the files before it in the batch; and an
\* upload that fails leaves the stored records as they were.
C26_BatchIndependence ==
  /\ [][(last'.op = "uploadFile" /\ ~last'.ok) => files' = files]_vars
  /\ \A f \in {g \in LiveFiles : (IF GetFileType(g.name) = "csv" THEN ParseCSV(g)
                                  ELSE ParseXLSX(g)).ok /\ GetFileType(g.name) # "null"} :
       (\E batch \in BagToSet(ui.batches) : \E k \in 1..Len(batch) : batch[k] = f)
         ~> (\E i \in Stored : files[i].value.name = f.name)

\* C27: getFiles, getFile, searchInFile and getFileStats, for an id of the
\* Map or any other, leave the Map and the item in localStorage as they were.
C27_ReadsHaveNoEffect ==
  [][last'.op \in {"getFiles", "getFile", "searchInFile", "getFileStats"} =>
       files' = files /\ storage' = storage]_vars

\* C27 witness: getFileStats has run for a stored record while the item in
\* localStorage is not the Map's serialisation, so that a save would show.
C27_Witness ==
  /\ last.op = "getFileStats"
  /\ IsFile(GetFile(last.id))
  /\ ~last.ret.throws
  /\ storage # Serialize(files)

\* C28: when the reply to a query (or the error text) is placed, the
\* placeholder created for the query takes it as content and stops loading,
\* and every other message of every session, the user's own among them, is
\* as it was, whatever the clock read when the ids were made.
C28_ReplyPlacement ==
  [][last'.op = "reply" =>
       LET before == last'.before
           after == chat'.chatSessions
           k == last'.call.placeholder
           holds(session) ==
             /\ session.id = last'.call.chatId
             /\ k \in 1..Len(session.messages)
             /\ session.messages[k].type = "assistant"
             /\ session.messages[k].isLoading
       IN  /\ Len(after) = Len(before)
           /\ \A i \in 1..Len(before) :
                after[i] = IF holds(before[i])
                           THEN [before[i] EXCEPT !.messages[k] =
                                   [@ EXCEPT !.content = last'.content, !.isLoading = FALSE]]
                           ELSE before[i]]_vars

\* C29: whatever sessions are created, deleted and renamed, there is at least
\* one chat session, no two sessions have the same id, and currentChatId is
\* the id of one of them; deleteChat with one session left changes nothing.
C29_ChatSessions ==
  /\ [](/\ Len(chat.chatSessions) >= 1
        /\ \A i, j \in 1..Len(chat.chatSessions) :
             chat.chatSessions[i].id = chat.chatSessions[j].id => i = j
        /\ chat.currentChatId \in ChatIds)
  /\ [][(last'.op = "deleteChat" /\ last'.sessions = 1) => chat' = chat]_vars

\* C30: when a testConnection call has completed, isLLMConnected() is true
\* exactly when getConnectionStatus() is 'connected'; and generateResponse
\* proceeds to its fetch only with a status other than 'error' and
\* 'disconnected'.
C30_FlagsAgree ==
  /\ [](last.op = "testConnection" =>
          (llm.isConnected <=> llm.connectionStatus = "connected"))
  /\ [][(last'.op = "generateResponse" /\ last'.proceeds) =>
          last'.status \notin {"error", "disconnected"}]_vars

====
